---- MODULE Spec2Model ----
(***************************************************************************)
(* Model of butido's batch commands: `lint` (src/commands/lint.rs and      *)
(* lint_packages/all_phases_available in src/commands/util.rs) and         *)
(* `source verify | list-missing | url` (src/commands/source.rs).          *)
(*                                                                         *)
(* One behaviour is one invocation of one command.  The per-package units  *)
(* of lint_packages and verify are futures held in a FuturesUnordered and  *)
(* driven by tokio's StreamExt::collect into a Result: every poll of a     *)
(* unit is one action, the order of polls is left open, and the first Err  *)
(* a unit yields ends the collect and drops the units still held.          *)
(***************************************************************************)
EXTENDS Integers, Sequences, FiniteSets, TLC

(* ---------------------------- bounds ----------------------------------- *)
NumPkgs == 3        \* packages in the repository
MaxPhaseLen == 3    \* longest phase list given to all_phases_available

(* ---------------------------- the repository --------------------------- *)
Pkgs == 1..NumPkgs
NoPkg == 0
NoPhase == "-"
PhaseNames == {"build", "install", "extra"}

\* Package::name(): A, A, B, B, A, A, ...
name(p) == IF ((p - 1) \div 2) % 2 = 0 THEN "A" ELSE "B"

\* Package::version(): 1, 2, 1, 2, ...
version(p) == ((p - 1) % 2) + 1

\* Package::phases().keys(): the declared phase names, in the map's order
phases(p) ==
    CASE p % 4 = 1 -> <<"build", "install">>
      [] p % 4 = 2 -> <<"build">>
      [] p % 4 = 3 -> <<"install", "build">>
      [] OTHER     -> <<"build", "extra", "install">>

(* ---------------------------- inputs ----------------------------------- *)
NoArg == ""
NameArgs == {NoArg, "A", "B"}
VersArgs == {NoArg, "=1", "=2", "bad"}
LinterLookups == {"found", "none", "error"}
ConfigChoices == { <<"build", "install">>,
                   <<"install", "build", "install">>,
                   <<"build">> }
\* what the collaborators answer for one package during lint:
\* the script cannot be built, the linter cannot be launched, or the
\* linter exits with a success / non-success status
LintFates == {"buildErr", "launchErr", "exit0", "exit1"}
\* what the source cache answers for one package
SrcFates == {"missing", "match", "mismatch", "ioerr"}
NotRead == "-"

VARIABLES
    cmd,        \* the command invoked
    pname,      \* the package_name argument (NoArg: not given)
    pvers,      \* the package_version argument (NoArg: not given)
    linter,     \* what find_linter_command yields
    config,     \* Configuration::available_phases()
    env,        \* per package: the collaborators' answer
    pc,         \* "start", "collect" (awaiting the units), "iter", "returned"
    unit,       \* per package: state of its future
    results,    \* the Vec collected from the units, in completion order
    log,        \* the info!/error! records written, in order
    out,        \* the lines written to stdout, in order
    barPos,     \* the progress bar's counter
    barMsg,     \* the progress bar's message
    barDone,    \* the progress bar was finished
    launched,   \* packages whose linter process was spawned
    hashed,     \* packages whose hash computation was started
    cursor,     \* position of the sequential iterators of url/list_missing
    result,     \* the command's return value
    stdoutLock, \* who holds the lock of stdout (NoPkg: nobody)
    failedWrite, \* the write to stdout that failed, and the lines before it
    pfPkg,      \* all_phases_available taken alone: the package's phase names
    pfAvail,    \*   the configured phase names
    pfRes       \*   its return value

vars == <<cmd, pname, pvers, linter, config, env, pc, unit, results, log, out,
          barPos, barMsg, barDone, launched, hashed, cursor, result,
          stdoutLock, failedWrite, pfPkg, pfAvail, pfRes>>

pfVars == <<pfPkg, pfAvail, pfRes>>
runVars == <<cmd, pname, pvers, linter, config, env, pc, unit, results, log,
             out, barPos, barMsg, barDone, launched, hashed, cursor, result,
             stdoutLock, failedWrite>>

\* the lock of stdout and the record of a failed write
ioVars == <<stdoutLock, failedWrite>>

(* ---------------------------- helpers ---------------------------------- *)
Range(s) == { s[i] : i \in 1..Len(s) }

\* Iterator::find(|x| !other.contains(x)): the first element of s that is
\* not an element of t, NoPhase when there is none
FindNotIn(s, t) ==
    IF \E i \in 1..Len(s) : s[i] \notin Range(t)
    THEN s[CHOOSE i \in 1..Len(s) :
                /\ s[i] \notin Range(t)
                /\ \A j \in 1..(i - 1) : s[j] \in Range(t)]
    ELSE NoPhase

Ok == [kind |-> "Ok", msg |-> "", pkg |-> NoPkg, phase |-> NoPhase]
Err(m, p, ph) == [kind |-> "Err", msg |-> m, pkg |-> p, phase |-> ph]
NoResult == [kind |-> "None", msg |-> "", pkg |-> NoPkg, phase |-> NoPhase]

(* ---------------------------- util.rs ---------------------------------- *)
\* all_phases_available without its second check
all_phases_available_first_only(p, package_phasenames, available_phases) ==
    LET extra == FindNotIn(package_phasenames, available_phases)
    IN  IF extra # NoPhase
        THEN Err("Phase available in package, but not in config", p, extra)
        ELSE Ok

\* all_phases_available with its two checks in the other order
all_phases_available_swapped(p, package_phasenames, available_phases) ==
    LET extra   == FindNotIn(package_phasenames, available_phases)
        missing == FindNotIn(available_phases, package_phasenames)
    IN  IF missing # NoPhase
        THEN Err("Phase not configured in package", p, missing)
        ELSE IF extra # NoPhase
        THEN Err("Phase available in package, but not in config", p, extra)
        ELSE Ok

\* fn all_phases_available(pkg, available_phases) -> Result<()>
all_phases_available(p, package_phasenames, available_phases) ==
    LET extra   == FindNotIn(package_phasenames, available_phases)
        missing == FindNotIn(available_phases, package_phasenames)
    IN  IF extra # NoPhase
        THEN Err("Phase available in package, but not in config", p, extra)
        ELSE IF missing # NoPhase
        THEN Err("Phase not configured in package", p, missing)
        ELSE Ok

\* lint_ok computed with any() in place of all()
lint_ok_any(rs) == \E i \in 1..Len(rs) : rs[i].success

\* lint_results.iter().all(|b| *b)
lint_ok(rs) == \A i \in 1..Len(rs) : rs[i].success

(* ---------------------------- the filter ------------------------------- *)
\* PackageVersionConstraint::new: the constraint parsed from the argument
PackageVersionConstraint_new(arg) ==
    CASE arg = "=1" -> [ok |-> TRUE, v |-> 1]
      [] arg = "=2" -> [ok |-> TRUE, v |-> 2]
      [] OTHER      -> [ok |-> FALSE, v |-> 0]

\* name_filter with a given name matching every package
name_filter_any(p) == TRUE

\* .filter(|p| pname.as_ref().map(|n| p.name() == n).unwrap_or(true))
name_filter(p) == pname = NoArg \/ name(p) = pname

\* .filter(|p| pvers.as_ref().map(|v| v.matches(p.version())).unwrap_or(true))
version_filter(p) ==
    \/ pvers = NoArg
    \/ /\ PackageVersionConstraint_new(pvers).ok
       /\ PackageVersionConstraint_new(pvers).v = version(p)

WorkingSet == { p \in Pkgs : name_filter(p) /\ version_filter(p) }

\* the futures collected into the FuturesUnordered, none polled yet
Dispatch == [p \in Pkgs |-> IF p \in WorkingSet THEN "pending" ELSE "none"]

\* a unit yields Err: collect stops at it, `?` returns it, and the
\* FuturesUnordered is dropped with the units it still holds
Dropped(p) ==
    [q \in Pkgs |-> IF q = p THEN "failed"
                    ELSE IF unit[q] \in {"pending", "running"} THEN "dropped"
                    ELSE unit[q]]

(* ---------------------------- lint.rs ---------------------------------- *)
\* lint_args with an unparsable constraint taken as no constraint
lint_args_unparsed(l, v) ==
    IF l = "error" THEN Err("find_linter_command failed", NoPkg, NoPhase)
    ELSE IF l = "none" THEN Err("No linter command found", NoPkg, NoPhase)
    ELSE Ok

\* the `?`s of lint before the bar is created: linter lookup, then the
\* version constraint
lint_args(l, v) ==
    IF l = "error" THEN Err("find_linter_command failed", NoPkg, NoPhase)
    ELSE IF l = "none" THEN Err("No linter command found", NoPkg, NoPhase)
    ELSE IF v # NoArg /\ ~PackageVersionConstraint_new(v).ok
    THEN Err("invalid version constraint", NoPkg, NoPhase)
    ELSE Ok

\* lint(): up to the first await of lint_packages
lint ==
    /\ pc = "start" /\ cmd = "lint"
    /\ LET r == lint_args(linter, pvers)
       IN  IF r.kind = "Err"
           THEN /\ pc' = "returned"
                /\ result' = r
                /\ UNCHANGED <<unit, barMsg>>
           ELSE /\ pc' = "collect"
                /\ barMsg' = [text |-> "Linting package scripts...", n |-> 0]
                /\ unit' = Dispatch
                /\ UNCHANGED result
    /\ UNCHANGED <<cmd, pname, pvers, linter, config, env, results, log, out,
                   barPos, barDone, launched, hashed, cursor>>
    /\ UNCHANGED ioVars
    /\ UNCHANGED pfVars

(* ---------------------------- util.rs: lint_packages ------------------- *)
\* first poll of the unit of package p: preflight, script, spawn
lint_unit_start(p) ==
    /\ pc = "collect" /\ cmd = "lint" /\ unit[p] = "pending"
    /\ LET pre == all_phases_available(p, phases(p), config)
           e   == IF pre.kind = "Err" THEN pre
                  ELSE IF env[p] = "buildErr"
                  THEN Err("script build failed", p, NoPhase)
                  ELSE IF env[p] = "launchErr"
                  THEN Err("linter launch failed", p, NoPhase)
                  ELSE Ok
       IN  IF e.kind = "Err"
           THEN /\ unit' = Dropped(p)
                /\ result' = e
                /\ pc' = "returned"
                /\ UNCHANGED launched
           ELSE /\ unit' = [unit EXCEPT ![p] = "running"]
                /\ launched' = launched \cup {p}
                /\ UNCHANGED <<result, pc>>
    /\ UNCHANGED <<cmd, pname, pvers, linter, config, env, results, log, out,
                   barPos, barMsg, barDone, hashed, cursor>>
    /\ UNCHANGED ioVars
    /\ UNCHANGED pfVars

\* lint_unit_exit with a job whose linter exited without success run again
lint_unit_exit_retry(p) ==
    /\ pc = "collect" /\ cmd = "lint" /\ unit[p] = "running"
    /\ IF env[p] = "exit1" /\ barPos = 0
       THEN /\ unit' = [unit EXCEPT ![p] = "pending"]
            /\ barPos' = barPos + 1
            /\ UNCHANGED results
       ELSE /\ barPos' = barPos + 1
            /\ results' = Append(results,
                                 [pkg |-> p, success |-> env[p] = "exit0"])
            /\ unit' = [unit EXCEPT ![p] = "done"]
    /\ UNCHANGED <<cmd, pname, pvers, linter, config, env, pc, log, out,
                   barMsg, barDone, launched, hashed, cursor, result>>
    /\ UNCHANGED ioVars
    /\ UNCHANGED pfVars

\* lint_unit_exit with a non-success exit status ending the batch
lint_unit_exit_abort(p) ==
    /\ pc = "collect" /\ cmd = "lint" /\ unit[p] = "running"
    /\ barPos' = barPos + 1
    /\ IF env[p] = "exit1"
       THEN /\ unit' = Dropped(p)
            /\ result' = Err("Linting was not successful", NoPkg, NoPhase)
            /\ pc' = "returned"
            /\ UNCHANGED results
       ELSE /\ results' = Append(results, [pkg |-> p, success |-> TRUE])
            /\ unit' = [unit EXCEPT ![p] = "done"]
            /\ UNCHANGED <<result, pc>>
    /\ UNCHANGED <<cmd, pname, pvers, linter, config, env, log, out,
                   barMsg, barDone, launched, hashed, cursor>>
    /\ UNCHANGED ioVars
    /\ UNCHANGED pfVars

\* the linter of package p exited: bar.inc(1) and the unit yields its tuple
lint_unit_exit(p) ==
    /\ pc = "collect" /\ cmd = "lint" /\ unit[p] = "running"
    /\ barPos' = barPos + 1
    /\ results' = Append(results, [pkg |-> p, success |-> env[p] = "exit0"])
    /\ unit' = [unit EXCEPT ![p] = "done"]
    /\ UNCHANGED <<cmd, pname, pvers, linter, config, env, pc, log, out,
                   barMsg, barDone, launched, hashed, cursor, result>>
    /\ UNCHANGED ioVars
    /\ UNCHANGED pfVars

\* log_records with the tuples taken last to first
log_records_reversed(rs) ==
    [i \in 1..Len(rs) |->
        [pkg |-> rs[Len(rs) + 1 - i].pkg,
         level |-> IF rs[Len(rs) + 1 - i].success THEN "info" ELSE "error"]]

\* .into_iter().map(|tpl| ..): one info! or error! record per tuple, in the
\* order of the Vec
log_records(rs) ==
    [i \in 1..Len(rs) |->
        [pkg |-> rs[i].pkg,
         level |-> IF rs[i].success THEN "info" ELSE "error"]]

\* every unit yielded Ok: log each tuple, reduce, finish the bar, return
lint_packages_finish ==
    /\ pc = "collect" /\ cmd = "lint"
    /\ \A p \in Pkgs : unit[p] \in {"none", "done"}
    /\ log' = log_records(results)
    /\ IF ~lint_ok(results)
       THEN /\ barMsg' = [text |-> "Linting errored", n |-> 0]
            /\ result' = Err("Linting was not successful", NoPkg, NoPhase)
       ELSE /\ barMsg' = [text |-> "Finished linting package scripts",
                          n |-> Len(results)]
            /\ result' = Ok
    /\ barDone' = TRUE
    /\ pc' = "returned"
    /\ UNCHANGED <<cmd, pname, pvers, linter, config, env, unit, results, out,
                   barPos, launched, hashed, cursor>>
    /\ UNCHANGED ioVars
    /\ UNCHANGED pfVars


(* ---------------------------- source.rs -------------------------------- *)
\* the `?` on the version constraint in verify and in url
source_args(v) ==
    IF v # NoArg /\ ~PackageVersionConstraint_new(v).ok
    THEN Err("invalid version constraint", NoPkg, NoPhase)
    ELSE Ok

\* SourceEntry::exists()
exists(p) == env[p] # "missing"

\* hash_line with the two branches exchanged
hash_line_exchanged(matches) == IF matches THEN "Hash Mismatch" ELSE "Ok"

\* the line verify prints for an artifact whose hash was computed
hash_line(matches) == IF matches THEN "Ok" ELSE "Hash Mismatch"

Line(k, p) == [kind |-> k, pkg |-> p]
WriteErr == Err("write to stdout failed", NoPkg, NoPhase)

\* holder of the stdout lock taken by `let mut outlock = out.lock()`: the
\* body of list_missing or url
Caller == -1

\* no write has failed / the write for package p failed after n lines
NoWrite == [pkg |-> NoPkg, at |-> 0]
Failed(p, n) == [pkg |-> p, at |-> n]

\* writeln_lock with the guard kept by the unit after the statement
writeln_lock_kept(p) == p

\* holder of the stdout lock after `writeln!(out.lock(), ..)` of the unit of
\* package p: the guard is a temporary dropped at the end of the statement
writeln_lock(p) == NoPkg

\* verify(): up to the await of the collect
verify ==
    /\ pc = "start" /\ cmd = "verify"
    /\ LET r == source_args(pvers)
       IN  IF r.kind = "Err"
           THEN /\ pc' = "returned"
                /\ result' = r
                /\ UNCHANGED unit
           ELSE /\ pc' = "collect"
                /\ unit' = Dispatch
                /\ UNCHANGED result
    /\ UNCHANGED <<cmd, pname, pvers, linter, config, env, results, log, out,
                   barPos, barMsg, barDone, launched, hashed, cursor>>
    /\ UNCHANGED ioVars
    /\ UNCHANGED pfVars

\* writeln!(out.lock(), ...) by the unit of package p: the line is written
\* and the unit yields Ok(()), or the write fails and the unit yields Err
verify_write(p, k) ==
    /\ stdoutLock = NoPkg
    /\ stdoutLock' = writeln_lock(p)
    /\ \E written \in BOOLEAN :
        IF written
        THEN /\ out' = Append(out, Line(k, p))
             /\ unit' = [unit EXCEPT ![p] = "done"]
             /\ UNCHANGED <<result, pc, failedWrite>>
        ELSE /\ unit' = Dropped(p)
             /\ result' = WriteErr
             /\ failedWrite' = Failed(p, Len(out))
             /\ pc' = "returned"
             /\ UNCHANGED out

\* first poll of the unit of package p: existence check, then either the
\* "Source missing" line or the start of the hash computation
verify_unit_start(p) ==
    /\ pc = "collect" /\ cmd = "verify" /\ unit[p] = "pending"
    /\ IF exists(p)
       THEN /\ hashed' = hashed \cup {p}
            /\ unit' = [unit EXCEPT ![p] = "running"]
            /\ UNCHANGED <<out, result, pc>>
            /\ UNCHANGED ioVars
       ELSE /\ verify_write(p, "Source missing")
            /\ UNCHANGED hashed
    /\ UNCHANGED <<cmd, pname, pvers, linter, config, env, results, log,
                   barPos, barMsg, barDone, launched, cursor>>
    /\ UNCHANGED pfVars

\* verify_hash() of package p finished
verify_unit_hash(p) ==
    /\ pc = "collect" /\ cmd = "verify" /\ unit[p] = "running"
    /\ IF env[p] = "ioerr"
       THEN /\ unit' = Dropped(p)
            /\ result' = Err("verify_hash failed", p, NoPhase)
            /\ pc' = "returned"
            /\ UNCHANGED out
            /\ UNCHANGED ioVars
       ELSE verify_write(p, hash_line(env[p] = "match"))
    /\ UNCHANGED <<cmd, pname, pvers, linter, config, env, results, log,
                   barPos, barMsg, barDone, launched, hashed, cursor>>
    /\ UNCHANGED pfVars

\* every unit yielded Ok(()): the collect yields Ok(())
verify_finish ==
    /\ pc = "collect" /\ cmd = "verify"
    /\ \A p \in Pkgs : unit[p] \in {"none", "done"}
    /\ result' = Ok
    /\ pc' = "returned"
    /\ UNCHANGED <<cmd, pname, pvers, linter, config, env, unit, results, log,
                   out, barPos, barMsg, barDone, launched, hashed, cursor>>
    /\ UNCHANGED ioVars
    /\ UNCHANGED pfVars

\* seq_write with a failed write skipped and the iteration going on
seq_write_swallowed(p, k) ==
    \E written \in BOOLEAN :
        /\ cursor' = cursor + 1
        /\ UNCHANGED <<result, pc, stdoutLock>>
        /\ IF written
           THEN /\ out' = Append(out, Line(k, p))
                /\ UNCHANGED failedWrite
           ELSE /\ failedWrite' = Failed(p, Len(out))
                /\ UNCHANGED out

\* one writeln! of the sequential commands, or its failure ending the collect
seq_write(p, k) ==
    \E written \in BOOLEAN :
        IF written
        THEN /\ out' = Append(out, Line(k, p))
             /\ cursor' = cursor + 1
             /\ UNCHANGED <<result, pc, stdoutLock, failedWrite>>
        ELSE /\ result' = WriteErr
             /\ failedWrite' = Failed(p, Len(out))
             /\ stdoutLock' = NoPkg
             /\ pc' = "returned"
             /\ UNCHANGED <<out, cursor>>

\* list_missing(): takes the stdout lock and starts iterating
list_missing ==
    /\ pc = "start" /\ cmd = "list_missing"
    /\ pc' = "iter"
    /\ UNCHANGED <<cmd, pname, pvers, linter, config, env, unit, results, log,
                   out, barPos, barMsg, barDone, launched, hashed, cursor,
                   result>>
    /\ stdoutLock' = Caller
    /\ UNCHANGED failedWrite
    /\ UNCHANGED pfVars

\* the map closure of list_missing on the next package
list_missing_next ==
    /\ pc = "iter" /\ cmd = "list_missing" /\ cursor \in Pkgs
    /\ IF ~exists(cursor)
       THEN seq_write(cursor, "missing")
       ELSE /\ cursor' = cursor + 1
            /\ UNCHANGED <<out, result, pc>>
            /\ UNCHANGED ioVars
    /\ UNCHANGED <<cmd, pname, pvers, linter, config, env, unit, results, log,
                   barPos, barMsg, barDone, launched, hashed>>
    /\ UNCHANGED pfVars

\* url(): takes the stdout lock, parses the arguments, starts iterating
url ==
    /\ pc = "start" /\ cmd = "url"
    /\ LET r == source_args(pvers)
       IN  IF r.kind = "Err"
           THEN /\ pc' = "returned"
                /\ result' = r
                /\ UNCHANGED stdoutLock
           ELSE /\ pc' = "iter"
                /\ stdoutLock' = Caller
                /\ UNCHANGED result
    /\ UNCHANGED failedWrite
    /\ UNCHANGED <<cmd, pname, pvers, linter, config, env, unit, results, log,
                   out, barPos, barMsg, barDone, launched, hashed, cursor>>
    /\ UNCHANGED pfVars

\* the filters and the map closure of url on the next package
url_next ==
    /\ pc = "iter" /\ cmd = "url" /\ cursor \in Pkgs
    /\ IF cursor \in WorkingSet
       THEN seq_write(cursor, "url")
       ELSE /\ cursor' = cursor + 1
            /\ UNCHANGED <<out, result, pc>>
            /\ UNCHANGED ioVars
    /\ UNCHANGED <<cmd, pname, pvers, linter, config, env, unit, results, log,
                   barPos, barMsg, barDone, launched, hashed>>
    /\ UNCHANGED pfVars

\* the iterator of list_missing or url is exhausted: collect yields Ok(())
seq_finish ==
    /\ pc = "iter" /\ cursor = NumPkgs + 1
    /\ result' = Ok
    /\ pc' = "returned"
    /\ UNCHANGED <<cmd, pname, pvers, linter, config, env, unit, results, log,
                   out, barPos, barMsg, barDone, launched, hashed, cursor>>
    /\ stdoutLock' = NoPkg
    /\ UNCHANGED failedWrite
    /\ UNCHANGED pfVars

(* ---------------------------- one invocation --------------------------- *)
NoPf ==
    /\ pfPkg = <<>>
    /\ pfAvail = <<>>
    /\ pfRes = NoResult

Idle ==
    /\ pc = "start"
    /\ unit = [p \in Pkgs |-> "none"]
    /\ results = <<>>
    /\ log = <<>>
    /\ out = <<>>
    /\ barPos = 0
    /\ barMsg = [text |-> "", n |-> 0]
    /\ barDone = FALSE
    /\ launched = {}
    /\ hashed = {}
    /\ cursor = 1
    /\ result = NoResult
    /\ stdoutLock = NoPkg
    /\ failedWrite = NoWrite

\* the source commands read neither the linter nor the configured phases
InitLint ==
    /\ cmd = "lint"
    /\ pname \in NameArgs
    /\ pvers \in VersArgs
    /\ linter \in LinterLookups
    /\ config \in ConfigChoices
    /\ env \in [Pkgs -> LintFates]

InitVerify ==
    /\ cmd = "verify"
    /\ pname \in NameArgs
    /\ pvers \in VersArgs
    /\ linter = "found"
    /\ config = <<"build", "install">>
    /\ env \in [Pkgs -> SrcFates]

InitListMissing ==
    /\ cmd = "list_missing"
    /\ pname = NoArg
    /\ pvers = NoArg
    /\ linter = "found"
    /\ config = <<"build", "install">>
    /\ env \in [Pkgs -> SrcFates]

InitUrl ==
    /\ cmd = "url"
    /\ pname \in NameArgs
    /\ pvers \in VersArgs
    /\ linter = "found"
    /\ config = <<"build", "install">>
    /\ env = [p \in Pkgs |-> NotRead]

Init ==
    /\ InitLint \/ InitVerify \/ InitListMissing \/ InitUrl
    /\ Idle
    /\ NoPf

Next ==
    \/ lint
    \/ \E p \in Pkgs : lint_unit_start(p)
    \/ \E p \in Pkgs : lint_unit_exit(p)
    \/ lint_packages_finish
    \/ verify
    \/ \E p \in Pkgs : verify_unit_start(p)
    \/ \E p \in Pkgs : verify_unit_hash(p)
    \/ verify_finish
    \/ list_missing
    \/ list_missing_next
    \/ url
    \/ url_next
    \/ seq_finish

Spec == Init /\ [][Next]_vars

(* ---------------------------- all_phases_available alone --------------- *)
SeqsUpTo(S, n) == UNION { [1..k -> S] : k \in 0..n }

\* the keys of a map: no name twice
KeySeqs == { s \in SeqsUpTo(PhaseNames, MaxPhaseLen) :
               \A i, j \in 1..Len(s) : s[i] = s[j] => i = j }

InitPhases ==
    /\ cmd = "all_phases_available"
    /\ pname = NoArg
    /\ pvers = NoArg
    /\ linter = "found"
    /\ config = <<>>
    /\ env = [p \in Pkgs |-> NotRead]
    /\ Idle
    /\ pfPkg \in KeySeqs
    /\ pfAvail \in SeqsUpTo(PhaseNames, MaxPhaseLen)
    /\ pfRes = NoResult

call_all_phases_available ==
    /\ cmd = "all_phases_available"
    /\ pfRes = NoResult
    /\ pfRes' = all_phases_available(NoPkg, pfPkg, pfAvail)
    /\ UNCHANGED <<pfPkg, pfAvail>>
    /\ UNCHANGED runVars

NextPhases == call_all_phases_available

SpecPhases == InitPhases /\ [][NextPhases]_vars


(* ======================================================================= *)
(* Properties                                                              *)
(* ======================================================================= *)
\* the invocation ends before any unit is built: no linter, or a version
\* constraint that does not parse
PreDispatchError ==
    \/ cmd = "lint" /\ (linter # "found" \/ pvers = "bad")
    \/ cmd \in {"verify", "url"} /\ pvers = "bad"

LinesOf(p) == { i \in 1..Len(out) : out[i].pkg = p }
LogsOf(p) == { i \in 1..Len(log) : log[i].pkg = p }
LintReturned == cmd = "lint" /\ pc = "returned" /\ ~PreDispatchError
VerifyReturned == cmd = "verify" /\ pc = "returned" /\ ~PreDispatchError
SummaryErr == Err("Linting was not successful", NoPkg, NoPhase)

\* C1: run-to-completion in lint_packages: when the job of one package
\* failed with an error of its own (preflight, script build, launch), every
\* other package of the working set was still run to its terminal outcome
\* and that outcome was logged; none was dropped.
C1_RunToCompletion ==
    (LintReturned /\ \E p \in Pkgs : unit[p] = "failed")
        => \A q \in WorkingSet :
              \/ unit[q] = "failed"
              \/ unit[q] = "done" /\ Cardinality(LogsOf(q)) = 1

\* C2: lint_packages returns Err exactly when some package of the working
\* set had a preflight violation, a script build failure, a launch failure
\* or a non-success exit status, and Ok exactly when every package of the
\* working set was linted with a success status (the empty set included).
C2_LintAggregate ==
    LintReturned =>
        /\ result.kind \in {"Ok", "Err"}
        /\ result.kind = "Err" <=>
              \E p \in WorkingSet :
                  \/ Range(phases(p)) # Range(config)
                  \/ env[p] # "exit0"
        /\ result.kind = "Err" <=>
              \E p \in WorkingSet :
                  \/ unit[p] = "failed"
                  \/ unit[p] = "done" /\ env[p] = "exit1"
        /\ result.kind = "Ok" <=>
              \A p \in WorkingSet : unit[p] = "done" /\ env[p] = "exit0"

\* C2 witness: a batch in which one linter exited with success and another
\* without, and the call returned the failure
C2_Witness ==
    /\ LintReturned
    /\ result.kind = "Err"
    /\ \E p, q \in WorkingSet :
          /\ unit[p] = "done" /\ env[p] = "exit0"
          /\ unit[q] = "done" /\ env[q] = "exit1"

\* C3: verify returns a failure if and only if some package of the working
\* set is Mismatch or Missing (or its check had an I/O error), and Ok only
\* when every package is Verified.
C3_VerifyAggregate ==
    (VerifyReturned /\ result # WriteErr) =>
        (result.kind = "Err" <=>
            \E p \in WorkingSet : env[p] \in {"missing", "mismatch", "ioerr"})

\* C4: all_phases_available returns Ok if and only if the declared phase
\* names and the configured phase names are equal as sets, whatever the
\* order of either list and whatever the duplicates of the configured one.
C4_PhaseSetEquality ==
    pfRes # NoResult =>
        (pfRes.kind = "Ok" <=> Range(pfPkg) = Range(pfAvail))

\* C4 witness: accepted although the two lists differ in order and the
\* configured one has a duplicate
C4_Witness ==
    /\ pfRes.kind = "Ok"
    /\ Len(pfAvail) > Len(pfPkg)
    /\ Len(pfPkg) >= 2
    /\ pfPkg[1] # pfAvail[1]

\* C5: whenever a declared phase is absent from the configuration the
\* 'declared but not in config' violation is reported, naming such a phase,
\* even if a configured phase is undeclared too; 'configured but not
\* declared' is reported only when every declared phase is configured; a
\* call reports one violation.
C5_CheckOrder ==
    pfRes # NoResult =>
        /\ (Range(pfPkg) \ Range(pfAvail) # {}) =>
              /\ pfRes.msg = "Phase available in package, but not in config"
              /\ pfRes.phase \in Range(pfPkg) \ Range(pfAvail)
        /\ pfRes.msg = "Phase not configured in package" =>
              /\ Range(pfPkg) \subseteq Range(pfAvail)
              /\ pfRes.phase \in Range(pfAvail) \ Range(pfPkg)
        /\ pfRes.kind = "Err" =>
              /\ pfRes.phase \in PhaseNames
              /\ pfRes.msg \in {"Phase available in package, but not in config",
                                "Phase not configured in package"}

\* C5 witness: both directions are violated and the declared-but-not-in-
\* config one is reported
C5_Witness ==
    /\ Range(pfPkg) \ Range(pfAvail) # {}
    /\ Range(pfAvail) \ Range(pfPkg) # {}
    /\ pfRes.msg = "Phase available in package, but not in config"

\* C6: verify prints exactly one result line for every package of the
\* working set, and an I/O or hashing error on one package's artifact does
\* not keep the other packages from being checked and printed.
C6_OneLinePerEntity ==
    (VerifyReturned /\ result # WriteErr) =>
        \A p \in WorkingSet :
            env[p] # "ioerr" => Cardinality(LinesOf(p)) = 1

\* C7: the line verify prints for a package is "Source missing" when the
\* artifact is absent (and then no hash is computed), "Ok" when it is
\* present and the hash matches, "Hash Mismatch" when it is present and the
\* hash differs; a package whose check completed has exactly one line.
C7_TriState ==
    cmd = "verify" =>
        /\ \A i \in 1..Len(out) :
              /\ env[out[i].pkg] = "missing" => out[i].kind = "Source missing"
              /\ env[out[i].pkg] = "match" => out[i].kind = "Ok"
              /\ env[out[i].pkg] = "mismatch" => out[i].kind = "Hash Mismatch"
              /\ env[out[i].pkg] # "ioerr"
        /\ \A p \in Pkgs : env[p] = "missing" => p \notin hashed
        /\ \A p \in Pkgs : unit[p] = "done" => Cardinality(LinesOf(p)) = 1

\* C7 witness: one run printed all three kinds of line
C7_Witness ==
    /\ VerifyReturned
    /\ result = Ok
    /\ { out[i].kind : i \in 1..Len(out) }
          = {"Source missing", "Ok", "Hash Mismatch"}

\* C8: when lint_packages returns, the number of logged outcomes equals the
\* number of packages that entered scheduling and no package is logged
\* twice, also when some packages fail.
C8_OutcomeCount ==
    LintReturned =>
        /\ Len(log) = Cardinality(WorkingSet)
        /\ \A p \in WorkingSet : Cardinality(LogsOf(p)) = 1

\* C9: when some package's lint job is unsuccessful, the error returned is
\* the one summarizing failure, surfaced after all units completed, and it
\* names no package and no per-package reason.
C9_SummaryError ==
    (LintReturned /\ result.kind = "Err") =>
        /\ result = SummaryErr
        /\ \A p \in WorkingSet : unit[p] \in {"done", "failed"}

\* C10: when no linter is found or the version constraint does not parse,
\* the command returns that error and nothing was dispatched: no unit, no
\* preflight, no process, no cache access, no output, no progress.
C10_PreDispatch ==
    PreDispatchError =>
        /\ pc \in {"start", "returned"}
        /\ pc = "returned" =>
              /\ result.kind = "Err"
              /\ result.msg \in {"find_linter_command failed",
                                 "No linter command found",
                                 "invalid version constraint"}
        /\ \A p \in Pkgs : unit[p] = "none"
        /\ launched = {} /\ hashed = {}
        /\ out = <<>> /\ log = <<>> /\ results = <<>>
        /\ barPos = 0 /\ barMsg.text = "" /\ ~barDone
        /\ cursor = 1

\* C10 witness: lint found its linter, the constraint did not parse, and
\* the command returned
C10_Witness ==
    /\ cmd = "lint" /\ linter = "found" /\ pvers = "bad"
    /\ pc = "returned"
    /\ result.msg = "invalid version constraint"


\* the package satisfies the predicates the arguments give
Selected(p) ==
    /\ pname # NoArg => name(p) = pname
    /\ pvers = "=1" => version(p) = 1
    /\ pvers = "=2" => version(p) = 2

\* C11: a package is dispatched by lint, verify and url if and only if its
\* name equals the given name (when one is given) and the given constraint
\* matches its version (when one is given); without arguments every package
\* is dispatched; no package is dispatched twice.
C11_WorkingSet ==
    ~PreDispatchError =>
        /\ (cmd \in {"lint", "verify"} /\ pc # "start") =>
              \A p \in Pkgs : unit[p] # "none" <=> Selected(p)
        /\ cmd = "url" =>
              /\ \A p \in Pkgs :
                    Cardinality(LinesOf(p)) =
                        IF Selected(p) /\ p < cursor THEN 1 ELSE 0
              /\ (pc = "returned" /\ result = Ok) =>
                    \A p \in Pkgs : LinesOf(p) # {} <=> Selected(p)
        /\ (pname = NoArg /\ pvers = NoArg) => WorkingSet = Pkgs
        /\ cmd = "lint" => launched \subseteq { p \in Pkgs : Selected(p) }
        /\ cmd = "verify" => hashed \subseteq { p \in Pkgs : Selected(p) }

\* C11 witness: lint with a name and a constraint dispatched the one package
\* that satisfies both and left out a package failing each of them
C11_Witness ==
    /\ cmd = "lint" /\ pname = "A" /\ pvers = "=1"
    /\ pc = "collect"
    /\ unit[1] = "pending" /\ unit[2] = "none" /\ unit[3] = "none"

\* C12: the progress counter is incremented once for every completed lint
\* job, successful or failed (preflight violation, script build failure and
\* non-success exit included), so that at the return it equals the number
\* of jobs that completed.
C12_ProgressCount ==
    LintReturned =>
        barPos = Cardinality({ p \in Pkgs : unit[p] \in {"done", "failed"} })

\* C13: lint_packages never returns with the bar unfinished: it is finished
\* with "Linting errored" when the call returns a failure and with
\* "Finished linting N package scripts" when it returns Ok.
C13_BarFinished ==
    LintReturned =>
        /\ barDone
        /\ result.kind = "Err" => barMsg.text = "Linting errored"
        /\ result.kind = "Ok" =>
              /\ barMsg.text = "Finished linting package scripts"
              /\ barMsg.n = Cardinality(WorkingSet)


\* C14: the units of verify write to stdout one whole line per lock: the
\* lock is taken, one line written and the lock released inside one poll,
\* so that at every suspension of a unit (its hash computation included)
\* nobody holds the lock, no unit finds it taken, and every unit has at
\* most one whole line in the output.
C14_SerializedWrites ==
    cmd = "verify" =>
        /\ stdoutLock = NoPkg
        /\ \A i \in 1..Len(out) :
              /\ out[i].kind \in {"Ok", "Hash Mismatch", "Source missing"}
              /\ out[i].pkg \in WorkingSet
        /\ \A p \in Pkgs : Cardinality(LinesOf(p)) <= 1

\* C14 witness: one unit has hashed and written its line while another is
\* still suspended in its hash computation
C14_Witness ==
    /\ cmd = "verify" /\ pc = "collect"
    /\ \E p, q \in Pkgs :
          /\ unit[p] = "done" /\ p \in hashed /\ LinesOf(p) # {}
          /\ unit[q] = "running"

\* C15: a failed write to stdout is fatal in verify, list_missing and url:
\* the command returns that error, exactly when a write failed, and no line
\* is written after the failed one.
C15_WriteFailureFatal ==
    /\ failedWrite # NoWrite <=> result = WriteErr
    /\ failedWrite # NoWrite =>
          /\ cmd \in {"verify", "list_missing", "url"}
          /\ pc = "returned"
          /\ Len(out) = failedWrite.at
          /\ LinesOf(failedWrite.pkg) = {}

\* C15 witness: list_missing wrote one line, the second write failed and a
\* later missing package was never written
C15_Witness ==
    /\ cmd = "list_missing"
    /\ failedWrite = Failed(2, 1)
    /\ ~exists(3)
    /\ LinesOf(3) = {}
    /\ pc = "returned"


\* the steps a job may take: created, first poll (launch, or failure of the
\* preflight / script / launch), exit of the linter; a job the collect
\* dropped, one that failed and one that completed stay as they are
JobStep(a, b) ==
    \/ a = b
    \/ a = "none" /\ b = "pending"
    \/ a = "pending" /\ b \in {"running", "failed", "dropped"}
    \/ a = "running" /\ b \in {"done", "dropped"}

\* C16: in lint_packages the job of a package only moves forward (pending,
\* then failed or executing, then completed), its linter is launched only
\* after its preflight passed and its script was built, at the one step
\* from pending to executing, and a job in a terminal state takes no step.
C16_JobStateMachine ==
    [][cmd = "lint" =>
          \A p \in Pkgs :
              /\ JobStep(unit[p], unit'[p])
              /\ launched \subseteq launched'
              /\ (p \notin launched /\ p \in launched') =>
                    (unit[p] = "pending" /\ unit'[p] = "running")
              /\ unit'[p] \in {"running", "done"} => p \in launched'
              /\ p \in launched' => unit'[p] \in {"running", "done", "dropped"}
              /\ p \in launched' =>
                    /\ Range(phases(p)) = Range(config)
                    /\ env[p] \in {"exit0", "exit1"}]_vars

\* C16 witness: one job went through launch and exit, another failed its
\* preflight without a launch
C16_Witness ==
    /\ LintReturned
    /\ \E p, q \in WorkingSet :
          /\ unit[p] = "done" /\ p \in launched
          /\ unit[q] = "failed" /\ q \notin launched
          /\ Range(phases(q)) # Range(config)

\* C17: every lint outcome is logged at the moment its unit completes,
\* without waiting for the units still in flight: at any time the log
\* records are the completions so far, in their order.
C17_LoggedImmediately ==
    cmd = "lint" =>
        /\ Len(log) = Len(results)
        /\ \A i \in 1..Len(log) : log[i].pkg = results[i].pkg

\* C17 as amended: the log stays empty while any unit is in flight; the
\* records are written together once every unit of the working set has
\* yielded its tuple, one per unit and in completion order; when a unit
\* yields an error nothing is logged.
C17_LoggedAfterCollect ==
    cmd = "lint" =>
        /\ pc # "returned" => log = <<>>
        /\ (pc = "returned" /\ \E p \in Pkgs : unit[p] \in {"failed", "dropped"})
              => log = <<>>
        /\ (LintReturned /\ \A p \in WorkingSet : unit[p] = "done") =>
              /\ Len(log) = Len(results)
              /\ Len(log) = Cardinality(WorkingSet)
              /\ \A i \in 1..Len(log) :
                    /\ log[i].pkg = results[i].pkg
                    /\ log[i].level = IF env[log[i].pkg] = "exit0"
                                      THEN "info" ELSE "error"

\* C17 witness: two outcomes were logged in their completion order, which
\* is not the order of the working set
C17_Witness ==
    /\ LintReturned
    /\ Len(log) >= 2
    /\ log[1].pkg > log[2].pkg
    /\ results[1].pkg = log[1].pkg

\* every package of the working set passes preflight, script construction
\* and launch
AllLaunchable ==
    \A p \in WorkingSet :
        /\ Range(phases(p)) = Range(config)
        /\ env[p] \in {"exit0", "exit1"}

\* C18: when every package of the working set passes preflight, script
\* construction and launch, all of them are linted whatever their exit
\* statuses: the counter reaches N, N outcomes are logged (info for
\* success, error otherwise) and the result is the summarizing error iff
\* some status is non-success.
C18_ExitStatusNoStop ==
    (LintReturned /\ AllLaunchable) =>
        /\ launched = WorkingSet
        /\ \A p \in WorkingSet : unit[p] = "done"
        /\ barPos = Cardinality(WorkingSet)
        /\ Len(log) = Cardinality(WorkingSet)
        /\ \A p \in WorkingSet :
              /\ Cardinality(LogsOf(p)) = 1
              /\ \A i \in LogsOf(p) :
                    log[i].level = IF env[p] = "exit0" THEN "info" ELSE "error"
        /\ result = SummaryErr <=> \E p \in WorkingSet : env[p] = "exit1"
        /\ result = Ok <=> \A p \in WorkingSet : env[p] = "exit0"

\* C18 witness: two packages were linted, the first to exit without
\* success and the second with success after it, and the call returned the
\* summarizing error
C18_Witness ==
    /\ LintReturned /\ AllLaunchable
    /\ Cardinality(WorkingSet) >= 2
    /\ Len(results) >= 2
    /\ ~results[1].success /\ results[2].success
    /\ barPos = Cardinality(WorkingSet)
    /\ result = SummaryErr


\* the outcome of the run of verify in which the units complete in the
\* order of the repository: the packages before the first one whose hash
\* computation fails are printed, and that failure, if any, is returned
FirstIoErr ==
    IF \E p \in WorkingSet : env[p] = "ioerr"
    THEN CHOOSE p \in WorkingSet :
            /\ env[p] = "ioerr"
            /\ \A q \in WorkingSet : env[q] = "ioerr" => p <= q
    ELSE NoPkg
InOrderPrinted ==
    { p \in WorkingSet : FirstIoErr = NoPkg \/ p < FirstIoErr }
InOrderResult ==
    IF FirstIoErr = NoPkg THEN Ok
    ELSE Err("verify_hash failed", FirstIoErr, NoPhase)

\* C19: for fixed per-package results the outcome of verify does not
\* depend on the order in which the units complete: every run returns the
\* same result and the same error and records the same set of packages as
\* the run that completes the units in the order of the repository.  Stated
\* for working sets whose artifacts all exist, where every unit suspends in
\* its hash computation and the completions are those of the hashes.
C19_OrderIndependence ==
    (VerifyReturned /\ failedWrite = NoWrite /\ \A p \in WorkingSet : exists(p)) =>
        /\ result = InOrderResult
        /\ { p \in Pkgs : LinesOf(p) # {} } = InOrderPrinted


\* C20: lint_packages and verify return only after every dispatched unit
\* has reached its terminal outcome: at the return no unit is left that was
\* never polled or was still in flight.
C20_FanIn ==
    (pc = "returned" /\ cmd \in {"lint", "verify"} /\ ~PreDispatchError) =>
        \A p \in Pkgs : unit[p] \in {"none", "done", "failed"}

====
